---- MODULE Spec2Model ----
(***************************************************************************)
(* A model of anesthetic/utils.py: the weighted-sample numerics            *)
(* (sample compression, contour levels, quantile, mirroring, integer       *)
(* weight resampling).                                                     *)
(*                                                                         *)
(* Every function of utils.py is pure, so the state machine is a caller    *)
(* that, from "idle", calls one function on inputs drawn from bounded      *)
(* sets, holds the outcome in `ret` ("done"), and discards it (Reset).     *)
(*                                                                         *)
(* Encoding.                                                               *)
(*  - Reals are exact: sample positions, densities and weights are         *)
(*    integers, every derived real is a reduced rational [n, d] (d > 0).   *)
(*    Floating-point rounding is not modelled.                             *)
(*  - numpy arrays are sequences; numpy's 0-based index b is position      *)
(*    b + 1 of the sequence.  Index arrays (digitize, argsort) keep the    *)
(*    code's 0-based values where the code computes with them.             *)
(*  - An optional argument is <<>> (None) or <<v>> (the value v).          *)
(*  - An outcome is a record with a `status`: "ok" with the returned       *)
(*    value, the name of the exception raised, or "nan" when the code      *)
(*    divides by zero and returns not-a-number.                            *)
(***************************************************************************)
EXTENDS Integers, Sequences, FiniteSets, TLC

VARIABLES pc, fn, args, ret

vars == <<pc, fn, args, ret>>

\* ------------------------------------------------------------- bounds
\* The longest sample array, the largest n, the longest list of contours.
MaxLen == 3
MaxN == 3
MaxContours == 2
\* The longest density array given with weights to the contour solver.
MaxPdf == 2
\* The quantiles asked for are the multiples of 1/QSteps in [0, 1].
QSteps == 4
\* The uniform draws u are the multiples of 1/USteps in [0, 1).
USteps == 2
\* The longest pair of coordinate arrays given to mirror_2d.
MaxPairs == 2

\* Sample positions and density values, and weights (0: a zero weight).
Values == 0..2
WeightValues == 0..2

\* --------------------------------------------------- values and helpers
None == <<>>
Some(v) == <<v>>
IsNone(o) == o = <<>>
Get(o) == o[1]

SeqsUpTo(S, n) == UNION {[1..k -> S] : k \in 0..n}

RECURSIVE SumTo(_, _)
SumTo(s, k) == IF k <= 0 THEN 0 ELSE s[k] + SumTo(s, k - 1)

\* ndarray.sum()
SumSeq(s) == SumTo(s, Len(s))

\* np.ones_like(a)
OnesLike(a) == [i \in 1..Len(a) |-> 1]

\* The sequence s itself (<<>> \o s = s), held as a tuple of values.
Array(s) == <<>> \o s

\* The position (1-based) of index i in the stable ascending order of the
\* entries of a whose indices are in sel (ties keep the order of the indices).
RankIn(a, sel, i) ==
    Cardinality({j \in sel : a[j] < a[i] \/ (a[j] = a[i] /\ j < i)}) + 1

\* The indices sel of a, in ascending order of value.
ArgSortOf(a, sel) ==
    Array([k \in 1..Cardinality(sel) |-> CHOOSE i \in sel : RankIn(a, sel, i) = k])

\* a[i] for an index array i.
Take(a, i) == Array([k \in 1..Len(i) |-> a[i[k]]])

\* np.argsort(a): the indices (1-based) of a in ascending order of value.
ArgSort(a) == ArgSortOf(a, 1..Len(a))

\* The values of a at the indices sel, ascending (ndarray.sort()).
SortedAt(a, sel) == Take(a, ArgSortOf(a, sel))

\* np.sort(a)
Sort(a) == Take(a, ArgSort(a))

\* ------------------------------------------------ sample_compression_1d
\* np.random.choice(x, size=n, replace=False): the index sets it may draw.
Choice(x, n) == {sel \in SUBSET (1..Len(x)) : Cardinality(sel) = n}

\* The subsamples x_ the code may hold after x_.sort().
Subsamples(x, n) ==
    IF Len(x) > n
    THEN {SortedAt(x, sel) : sel \in Choice(x, n)}
    ELSE {SortedAt(x, 1..Len(x))}

\* centers = (x_[1:] + x_[:-1])/2, kept doubled so that they stay integers.
Centers2(xs) == Array([k \in 1..(Len(xs) - 1) |-> xs[k + 1] + xs[k]])

\* np.digitize(v, centers): the 0-based bin i with centers[i-1] <= v < centers[i].
Digitize(v, centers2) ==
    Cardinality({k \in 1..Len(centers2) : centers2[k] <= 2 * v})

\* A buggy np.add.at: the buffered w_[j] += w, which keeps one addend per bin.
AddAtBuffered(w0, j, w) ==
    [b \in 1..Len(w0) |->
        IF \E t \in 1..Len(j) : j[t] + 1 = b
        THEN LET t == CHOOSE t \in 1..Len(j) :
                        /\ j[t] + 1 = b
                        /\ \A t2 \in 1..Len(j) : j[t2] + 1 = b => t2 <= t
             IN  w0[b] + w[t]
        ELSE w0[b]]

\* np.add.at(w0, j, w) with w already of j's length: unbuffered accumulation.
RECURSIVE AddAtFrom(_, _, _, _)
AddAtFrom(w0, j, w, t) ==
    IF t > Len(j) THEN w0
    ELSE AddAtFrom([w0 EXCEPT ![j[t] + 1] = @ + w[t]], j, w, t + 1)

AddAt(w0, j, w) == AddAtFrom(w0, j, w, 1)

\* numpy's broadcast of a 1-d array w to length n: <<>> when it is refused.
BroadcastTo(w, n) ==
    IF Len(w) = n THEN Some(w)
    ELSE IF Len(w) = 1 THEN Some([i \in 1..n |-> w[1]])
    ELSE None

sample_compression_1d(x, wopt, n, xs) ==
    LET w == IF IsNone(wopt) THEN OnesLike(x) ELSE Get(wopt)
        centers2 == Centers2(xs)
        j == Array([t \in 1..Len(x) |-> Digitize(x[t], centers2)])
        w0 == [b \in 1..Len(xs) |-> 0]
        wb == BroadcastTo(w, Len(j))
    IN  IF IsNone(wb) THEN [status |-> "ValueError"]
        ELSE IF \E t \in 1..Len(j) : j[t] + 1 > Len(w0)
        THEN [status |-> "IndexError"]
        ELSE [status |-> "ok", x |-> xs, w |-> AddAt(w0, j, Get(wb))]

\* ---------------------------------------------------------- exact reals
RECURSIVE GCD(_, _)
GCD(a, b) == IF b = 0 THEN a ELSE GCD(b, a % b)

Abs(a) == IF a < 0 THEN -a ELSE a

\* The real n/d (d > 0), reduced, so that equal reals are equal records.
Rat(n, d) == LET g == GCD(Abs(n), d) IN [n |-> n \div g, d |-> d \div g]

LCM(a, b) == (a \div GCD(a, b)) * b

RSub(a, b) ==
    LET l == LCM(a.d, b.d) IN Rat(a.n * (l \div a.d) - b.n * (l \div b.d), l)

RLt(a, b) ==
    LET l == LCM(a.d, b.d) IN a.n * (l \div a.d) < b.n * (l \div b.d)

\* The integer v against the real r: v >= r.
IntGeq(v, r) == v * r.d >= r.n

\* np.cumsum
CumSum(s) == Array([k \in 1..Len(s) |-> SumTo(s, k)])

\* -------------------------------------------------------------- interp1d
\* scipy's interp1d(x, y)(t), linear, for x = cx/X (cx the cumulative sums,
\* X the total they are divided by) and t = tn/td.  searchsorted(x, t) is the
\* number of x entries below t, clipped to 1..len(x)-1; the value is
\* slope*(t - x_lo) + y_lo with slope = (y_hi - y_lo)/(x_hi - x_lo).
Interp1d(cx, X, ys, tn, td) ==
    IF X = 0 THEN [status |-> "nan"]
    ELSE IF tn < 0 \/ tn * X > cx[Len(cx)] * td THEN [status |-> "ValueError"]
    ELSE
      LET below == Cardinality({k \in 1..Len(cx) : cx[k] * td < tn * X})
          idx == IF below < 1 THEN 1
                 ELSE IF below > Len(cx) - 1 THEN Len(cx) - 1 ELSE below
          lo == idx
          hi == idx + 1
          dx == td * (cx[hi] - cx[lo])
      IN  IF dx = 0 THEN [status |-> "nan"]
          ELSE [status |-> "ok",
                val |-> Rat(ys[lo] * dx + (ys[hi] - ys[lo]) * (tn * X - cx[lo] * td),
                            dx)]

\* ------------------------------------------------- the contour solver
\* Requested masses are in hundredths: 68 is 0.68.
\* contours = [1-p for p in reversed(contours)]
ComplementForgotten(contours) ==
    [k \in 1..Len(contours) |-> contours[Len(contours) + 1 - k]]

Complement(contours) ==
    [k \in 1..Len(contours) |-> 100 - contours[Len(contours) + 1 - k]]

EpsDen == 100000
EpsTypo == Rat(1, 10000)

\* 1e-5
Eps == Rat(1, EpsDen)

\* A buggy repair: only the level before a duplicate is lowered.
CorrectOnlyPreviousFrom(c, i) ==
    LET RECURSIVE Go(_, _)
        Go(cc, k) ==
            IF k > Len(cc) THEN cc
            ELSE IF cc[k - 1] = cc[k]
                 THEN Go([cc EXCEPT ![k - 1] = RSub(@, Eps)], k + 1)
                 ELSE Go(cc, k + 1)
    IN  Go(c, i)

\* for i in range(1, len(c)): if c[i-1] == c[i]: every c[j], j < i, -= 1e-5
\* (i is the 1-based position of c[i] here).
RECURSIVE CorrectLevelsFrom(_, _)
CorrectLevelsFrom(c, i) ==
    IF i > Len(c) THEN c
    ELSE IF c[i - 1] = c[i]
         THEN CorrectLevelsFrom(
                  [j \in 1..Len(c) |-> IF j < i THEN RSub(c[j], Eps) ELSE c[j]],
                  i + 1)
         ELSE CorrectLevelsFrom(c, i + 1)

CorrectLevels(c) == CorrectLevelsFrom(c, 2)

\* c = list(interp(contours)) + [max]; then the repair.  cum (before its
\* division by cum[-1]) and ys are the interpolation table without its
\* leading (0, 0); top is the closing level.
Levels(cum, ys, contours, top) ==
    LET cx == <<0>> \o cum
        X == cum[Len(cum)]
        q == Complement(contours)
        at == Array([k \in 1..Len(q) |-> Interp1d(cx, X, <<0>> \o ys, q[k], 100)])
    IN  IF X = 0 THEN [status |-> "nan"]
        ELSE IF \E k \in 1..Len(q) : at[k].status = "ValueError"
        THEN [status |-> "ValueError"]
        ELSE IF \E k \in 1..Len(q) : at[k].status = "nan"
        THEN [status |-> "nan"]
        ELSE [status |-> "ok",
              c |-> CorrectLevels([k \in 1..Len(q) |-> at[k].val]
                                  \o <<Rat(top, 1)>>)]

iso_probability_contours(pdf, contours) ==
    LET p == Sort(pdf)
    IN  IF Len(pdf) = 0 THEN [status |-> "IndexError"]
        ELSE Levels(CumSum(p), p, contours, p[Len(p)])

iso_probability_contours_from_samples(pdf, contours, wopt) ==
    LET weights == IF IsNone(wopt) THEN OnesLike(pdf) ELSE Get(wopt)
        i == ArgSort(pdf)
    IN  IF \E k \in 1..Len(i) : i[k] > Len(weights) THEN [status |-> "IndexError"]
        ELSE IF Len(pdf) = 0 THEN [status |-> "IndexError"]
        ELSE LET sorted == Take(pdf, i)
             IN  Levels(CumSum(Take(weights, i)), sorted, contours, sorted[Len(sorted)])

\* -------------------------------------------------------------- quantile
\* w[i[1:]] + w[i[:-1]]
PairSums(w, i) == Array([k \in 1..(Len(i) - 1) |-> w[i[k + 1]] + w[i[k]]])

\* quantile(a, q, w) for q = qn/qd.
quantile(a, qn, qd, wopt) ==
    LET w == IF IsNone(wopt) THEN OnesLike(a) ELSE Get(wopt)
        i == ArgSort(a)
    IN  IF Len(a) >= 2 /\ \E k \in 1..Len(i) : i[k] > Len(w)
        THEN [status |-> "IndexError"]
        ELSE IF Len(a) < 2 THEN [status |-> "IndexError"]
        ELSE LET c == CumSum(PairSums(w, i))
             IN  Interp1d(<<0>> \o c, c[Len(c)], Take(a, i), qn, qd)

\* ------------------------------------------------------------- mirror_1d
\* d[d < xmed] and d[d >= xmed], for twice the median xmed2 = xmin + xmax.
BelowMed(d, xmed2) == SelectSeq(d, LAMBDA v : 2 * v < xmed2)
AtOrAboveMed(d, xmed2) == SelectSeq(d, LAMBDA v : 2 * v >= xmed2)

\* 2*b - d
Reflect(d, b) == [k \in 1..Len(d) |-> 2 * b - d[k]]

\* A buggy split: a point on the median goes to both halves.
mirror_1d_both_halves(d, xmin, xmax) ==
    IF ~IsNone(xmin) /\ ~IsNone(xmax)
    THEN LET xmed2 == Get(xmin) + Get(xmax)
         IN  Reflect(SelectSeq(d, LAMBDA v : 2 * v <= xmed2), Get(xmin)) \o d
                 \o Reflect(AtOrAboveMed(d, xmed2), Get(xmax))
    ELSE IF ~IsNone(xmin) THEN Reflect(d, Get(xmin)) \o d
    ELSE IF ~IsNone(xmax) THEN d \o Reflect(d, Get(xmax))
    ELSE d

mirror_1d(d, xmin, xmax) ==
    IF ~IsNone(xmin) /\ ~IsNone(xmax)
    THEN LET xmed2 == Get(xmin) + Get(xmax)
         IN  Reflect(BelowMed(d, xmed2), Get(xmin)) \o d
                 \o Reflect(AtOrAboveMed(d, xmed2), Get(xmax))
    ELSE IF ~IsNone(xmin) THEN Reflect(d, Get(xmin)) \o d
    ELSE IF ~IsNone(xmax) THEN d \o Reflect(d, Get(xmax))
    ELSE d

\* ------------------------------------------------------------- mirror_2d
\* a[b < med] and a[b >= med] for twice the median med2: the entries of a at
\* the places where the mask computed from b is true.
MaskedBelow(a, b, med2) ==
    LET idx == SelectSeq([k \in 1..Len(b) |-> k], LAMBDA k : 2 * b[k] < med2)
    IN  Array([m \in 1..Len(idx) |-> a[idx[m]]])

MaskedAtOrAbove(a, b, med2) ==
    LET idx == SelectSeq([k \in 1..Len(b) |-> k], LAMBDA k : 2 * b[k] >= med2)
    IN  Array([m \in 1..Len(idx) |-> a[idx[m]]])

\* A buggy reflection of one axis: with both bounds the other coordinate is
\* carried in the order unsplit, low half, high half.
MirrorAxisMisordered(d, other, lo, hi) ==
    IF ~IsNone(lo) /\ ~IsNone(hi)
    THEN IF Len(d) # Len(other) THEN [status |-> "IndexError"]
         ELSE LET med2 == Get(lo) + Get(hi)
              IN  [status |-> "ok",
                   other |-> other \o MaskedBelow(other, d, med2)
                                 \o MaskedAtOrAbove(other, d, med2),
                   d |-> Reflect(BelowMed(d, med2), Get(lo)) \o d
                             \o Reflect(AtOrAboveMed(d, med2), Get(hi))]
    ELSE IF ~IsNone(lo)
    THEN [status |-> "ok", other |-> other \o other, d |-> Reflect(d, Get(lo)) \o d]
    ELSE IF ~IsNone(hi)
    THEN [status |-> "ok", other |-> other \o other, d |-> d \o Reflect(d, Get(hi))]
    ELSE [status |-> "ok", other |-> other, d |-> d]

\* One of the two blocks of mirror_2d: d is the coordinate reflected, other
\* the coordinate carried along.  The carried array is built first, from the
\* masks of the not yet reflected d; a boolean mask of another length than
\* the array it indexes is an IndexError.
MirrorAxis(d, other, lo, hi) ==
    IF ~IsNone(lo) /\ ~IsNone(hi)
    THEN IF Len(d) # Len(other) THEN [status |-> "IndexError"]
         ELSE LET med2 == Get(lo) + Get(hi)
              IN  [status |-> "ok",
                   other |-> MaskedBelow(other, d, med2) \o other
                                 \o MaskedAtOrAbove(other, d, med2),
                   d |-> Reflect(BelowMed(d, med2), Get(lo)) \o d
                             \o Reflect(AtOrAboveMed(d, med2), Get(hi))]
    ELSE IF ~IsNone(lo)
    THEN [status |-> "ok", other |-> other \o other, d |-> Reflect(d, Get(lo)) \o d]
    ELSE IF ~IsNone(hi)
    THEN [status |-> "ok", other |-> other \o other, d |-> d \o Reflect(d, Get(hi))]
    ELSE [status |-> "ok", other |-> other, d |-> d]

\* mirror_2d works on copies d_x, d_y of the caller's arrays d_x_, d_y_ and
\* rebinds them; the result carries the caller's arrays as they are at return.
mirror_2d(d_x_, d_y_, xmin, xmax, ymin, ymax) ==
    LET d_x == Array(d_x_)
        d_y == Array(d_y_)
        sx == MirrorAxis(d_x, d_y, xmin, xmax)
    IN  IF sx.status # "ok" THEN [status |-> sx.status]
        ELSE LET sy == MirrorAxis(sx.other, sx.d, ymin, ymax)
             IN  IF sy.status # "ok" THEN [status |-> sy.status]
                 ELSE [status |-> "ok", x |-> sy.other, y |-> sy.d,
                       d_x_ |-> d_x_, d_y_ |-> d_y_]

\* ------------------------------------------------------ compress_weights
\* max(a), a not empty.
MaxOf(a) == CHOOSE v \in {a[k] : k \in 1..Len(a)} : \A k \in 1..Len(a) : v >= a[k]

\* The non-zero weights are all equal.
EqualNonZero(w) ==
    \A a, b \in 1..Len(w) : (w[a] # 0 /\ w[b] # 0) => w[a] = w[b]

\* channel_capacity(w) = exp(-sum p log p) for weights whose non-zero entries
\* are all equal: their number k (p = 1/k each, the zero weights dropped by
\* nansum), and exp(0) = 1 when there is none.
ChannelCapacity(w) ==
    LET k == Cardinality({a \in 1..Len(w) : w[a] # 0})
    IN  IF k = 0 THEN 1 ELSE k

\* The length numpy broadcasts two 1-d arrays of lengths a and b to; -1 when
\* it refuses.
BroadcastLen(a, b) ==
    IF a = b THEN a ELSE IF a = 1 THEN b ELSE IF b = 1 THEN a ELSE -1

\* A buggy comparison: u <= fraction.
ExtraOrEqual(u, fraction) ==
    IF RLt(u, fraction) \/ u = fraction THEN 1 ELSE 0

\* (u < fraction).astype(int)
Extra(u, fraction) == IF RLt(u, fraction) THEN 1 ELSE 0

\* compress_weights(w, u, nsamples); draws are the values np.random.rand
\* gives when u is None.  W = w*num/den.
compress_weights(wopt, uopt, nsopt, draws) ==
    IF IsNone(uopt) /\ IsNone(wopt) THEN [status |-> "TypeError"]
    ELSE
      LET u == IF IsNone(uopt) THEN draws ELSE Get(uopt)
          w == IF IsNone(wopt) THEN OnesLike(u) ELSE Get(wopt)
          nsamples == IF IsNone(nsopt) THEN ChannelCapacity(w) ELSE Get(nsopt)
          num == IF nsamples <= 0 THEN 1 ELSE nsamples
          den == IF nsamples <= 0 THEN MaxOf(w) ELSE SumSeq(w)
          n == BroadcastLen(Len(u), Len(w))
          integer(k) == (w[k] * num) \div den
          fraction(k) == Rat((w[k] * num) % den, den)
      IN  IF nsamples <= 0 /\ Len(w) = 0 THEN [status |-> "ValueError"]
          ELSE IF Len(w) > 0 /\ den = 0 THEN [status |-> "nan"]
          ELSE IF n = -1 THEN [status |-> "ValueError"]
          ELSE [status |-> "ok",
                u |-> u,
                val |-> Array([k \in 1..n |->
                          LET kw == IF Len(w) = 1 THEN 1 ELSE k
                              ku == IF Len(u) = 1 THEN 1 ELSE k
                          IN  integer(kw) + Extra(u[ku], fraction(kw))])]

\* ------------------------------------- triangular_sample_compression_2d
\* The points are 1..npts (x.index + 1); their coordinates and cov reach the
\* code only through matplotlib's Triangulation and TriFinder, whose answers
\* are inputs here: j[p] is <<>> (the code's -1) or the triangle of point p,
\* a triple of 0-based positions among the chosen vertices.

RAdd(a, b) ==
    LET l == LCM(a.d, b.d) IN Rat(a.n * (l \div a.d) + b.n * (l \div b.d), l)

NonZero(w) == {a \in 1..Len(w) : w[a] # 0}

\* i: every point when fewer than n weights are non-zero, else n points
\* drawn without replacement with probability w/w.sum().
TriSelections(npts, w, n) ==
    IF Cardinality(NonZero(w)) < n THEN {1..npts}
    ELSE {sel \in SUBSET NonZero(w) : Cardinality(sel) = n}

Triangles(nvert) ==
    {<<a, b, c>> : a, b, c \in 0..(nvert - 1)} \cap
    {t \in (0..(nvert - 1)) \X (0..(nvert - 1)) \X (0..(nvert - 1)) :
        t[1] < t[2] /\ t[2] < t[3]}

\* What trifinder(x, y) may answer for npts points and nvert vertices.
TriFinderAnswers(npts, nvert) == [1..npts -> {<<>>} \cup Triangles(nvert)]

\* A buggy splat: every corner receives the point's whole weight.
triangular_sample_compression_2d_whole(npts, wopt, n, sel, j, degenerate) ==
    LET w == IF IsNone(wopt) THEN [k \in 1..npts |-> 1] ELSE Get(wopt)
        inside == SelectSeq([p \in 1..npts |-> p], LAMBDA p : j[p] # <<>>)
        whole == Array([t \in 1..Len(inside) |-> w[inside[t]]])
        corner(c) == Array([t \in 1..Len(inside) |-> j[inside[t]][c]])
        w0 == [v \in 1..Cardinality(sel) |-> 0]
        wholes == AddAt(AddAt(AddAt(w0, corner(1), whole), corner(2), whole),
                        corner(3), whole)
    IN  IF Cardinality(NonZero(w)) >= n /\ SumSeq(w) = 0
        THEN [status |-> "ValueError"]
        ELSE IF Cardinality(sel) < 3 THEN [status |-> "ValueError"]
        ELSE IF degenerate THEN [status |-> "RuntimeError"]
        ELSE [status |-> "ok",
              i |-> sel,
              w |-> Array([v \in 1..Cardinality(sel) |-> Rat(wholes[v], 1)])]

triangular_sample_compression_2d(npts, wopt, n, sel, j, degenerate) ==
    LET w == IF IsNone(wopt) THEN [k \in 1..npts |-> 1] ELSE Get(wopt)
        inside == SelectSeq([p \in 1..npts |-> p], LAMBDA p : j[p] # <<>>)
        third == Array([t \in 1..Len(inside) |-> w[inside[t]]])
        corner(c) == Array([t \in 1..Len(inside) |-> j[inside[t]][c]])
        w0 == [v \in 1..Cardinality(sel) |-> 0]
        thirds == AddAt(AddAt(AddAt(w0, corner(1), third), corner(2), third),
                        corner(3), third)
    IN  IF Cardinality(NonZero(w)) >= n /\ SumSeq(w) = 0
        THEN [status |-> "ValueError"]
        ELSE IF Cardinality(sel) < 3 THEN [status |-> "ValueError"]
        ELSE IF degenerate THEN [status |-> "RuntimeError"]
        ELSE [status |-> "ok",
              i |-> sel,
              w |-> Array([v \in 1..Cardinality(sel) |-> Rat(thirds[v], 3)])]

\* ------------------------------------------------------------ the caller
Samples == SeqsUpTo(Values, MaxLen)
Weights == SeqsUpTo(WeightValues, MaxLen)
OptWeights == {None} \cup {Some(w) : w \in Weights}

\* The requested masses, in hundredths, and the lists of them.
ContourMasses == {0, 32, 68, 100}
ContourLists == SeqsUpTo(ContourMasses, MaxContours)

\* contours=[0.68, 0.95]
DefaultContours == <<68, 95>>

\* np.ones((10,10)), flattened.
UniformGrid == [k \in 1..(10 * 10) |-> 1]

GridInputs == (Samples \X ContourLists) \cup {<<UniformGrid, DefaultContours>>}

\* The weighted inputs of the contour solver.
PdfSamples == SeqsUpTo(Values, MaxPdf)
PdfOptWeights == {None} \cup {Some(w) : w \in SeqsUpTo(WeightValues, MaxPdf)}

\* xmin, xmax: None or a bound.
OptBounds == {None} \cup {Some(b) : b \in Values}

\* d_x_, d_y_ of mirror_2d, and its bounds: None, the least or the greatest
\* position.
PairArrays == SeqsUpTo(Values, MaxPairs)
PairBounds == {None, Some(0), Some(2)}

\* len(x) of triangular_sample_compression_2d: with four points the chosen
\* vertices can make more than one triangle.
PointCounts == 0..4

\* u: None or draws in [0, 1); nsamples: None or a number.
DrawValues == {Rat(k, USteps) : k \in 0..(USteps - 1)}
Draws == SeqsUpTo(DrawValues, MaxLen)
OptDraws == {None} \cup {Some(u) : u \in Draws}
OptNSamples == {None} \cup {Some(ns) : ns \in 0..MaxN}

Init ==
    /\ pc = "idle"
    /\ fn = "none"
    /\ args = [x |-> <<>>]
    /\ ret = [status |-> "none"]

CallSampleCompression1d ==
    /\ pc = "idle"
    /\ \E x \in Samples, w \in OptWeights, n \in 0..MaxN :
         \E xs \in Subsamples(x, n) :
            /\ fn' = "sample_compression_1d"
            /\ args' = [x |-> x, w |-> w, n |-> n]
            /\ ret' = sample_compression_1d(x, w, n, xs)
    /\ pc' = "done"

CallIsoProbabilityContours ==
    /\ pc = "idle"
    /\ \E in \in GridInputs :
            /\ fn' = "iso_probability_contours"
            /\ args' = [x |-> in[1], contours |-> in[2], w |-> None]
            /\ ret' = iso_probability_contours(in[1], in[2])
    /\ pc' = "done"

CallIsoProbabilityContoursFromSamples ==
    /\ pc = "idle"
    /\ \E pdf \in PdfSamples, contours \in ContourLists, w \in PdfOptWeights :
            /\ fn' = "iso_probability_contours_from_samples"
            /\ args' = [x |-> pdf, contours |-> contours, w |-> w]
            /\ ret' = iso_probability_contours_from_samples(pdf, contours, w)
    /\ pc' = "done"

CallQuantile ==
    /\ pc = "idle"
    /\ \E a \in Samples, qn \in 0..QSteps, w \in OptWeights :
            /\ fn' = "quantile"
            /\ args' = [x |-> a, q |-> qn, w |-> w]
            /\ ret' = quantile(a, qn, QSteps, w)
    /\ pc' = "done"

CallMirror1d ==
    /\ pc = "idle"
    /\ \E d \in Samples, xmin \in OptBounds, xmax \in OptBounds :
            /\ fn' = "mirror_1d"
            /\ args' = [x |-> d, xmin |-> xmin, xmax |-> xmax]
            /\ ret' = [status |-> "ok", val |-> mirror_1d(d, xmin, xmax)]
    /\ pc' = "done"

CallMirror2d ==
    /\ pc = "idle"
    /\ \E d_x \in PairArrays, d_y \in PairArrays,
          xmin \in PairBounds, xmax \in PairBounds,
          ymin \in PairBounds, ymax \in PairBounds :
            /\ fn' = "mirror_2d"
            /\ args' = [x |-> d_x, y |-> d_y, xmin |-> xmin, xmax |-> xmax,
                        ymin |-> ymin, ymax |-> ymax]
            /\ ret' = mirror_2d(d_x, d_y, xmin, xmax, ymin, ymax)
    /\ pc' = "done"

\* nsamples=None asks for channel_capacity(w), which is modelled for weights
\* whose non-zero entries are equal.
CapacityModelled(w, ns) ==
    IF IsNone(ns) /\ ~IsNone(w) THEN EqualNonZero(Get(w)) ELSE TRUE

CallCompressWeights ==
    /\ pc = "idle"
    /\ \E w \in OptWeights, u \in OptDraws, ns \in OptNSamples :
         \E draws \in IF IsNone(u) /\ ~IsNone(w)
                      THEN [1..Len(Get(w)) -> DrawValues] ELSE {<<>>} :
            /\ CapacityModelled(w, ns)
            /\ fn' = "compress_weights"
            /\ args' = [w |-> w, u |-> u, nsamples |-> ns]
            /\ ret' = compress_weights(w, u, ns, draws)
    /\ pc' = "done"

CallTriangularSampleCompression2d ==
    /\ pc = "idle"
    /\ \E npts \in PointCounts, n \in 0..(MaxN + 1), degenerate \in BOOLEAN :
         \E w \in {None} \cup {Some(s) : s \in [1..npts -> WeightValues]} :
           \E sel \in TriSelections(npts, IF IsNone(w) THEN [k \in 1..npts |-> 1]
                                                    ELSE Get(w), n) :
             \E j \in TriFinderAnswers(npts, Cardinality(sel)) :
                /\ fn' = "triangular_sample_compression_2d"
                /\ args' = [x |-> [k \in 1..npts |-> k], w |-> w, n |-> n, j |-> j]
                /\ ret' = triangular_sample_compression_2d(npts, w, n, sel, j,
                                                           degenerate)
    /\ pc' = "done"

Reset ==
    /\ pc = "done"
    /\ pc' = "idle"
    /\ fn' = "none"
    /\ args' = [x |-> <<>>]
    /\ ret' = [status |-> "none"]

NextCompression1d == CallSampleCompression1d \/ Reset

SpecCompression1d == Init /\ [][NextCompression1d]_vars

NextContours ==
    \/ CallIsoProbabilityContours
    \/ CallIsoProbabilityContoursFromSamples
    \/ Reset

SpecContours == Init /\ [][NextContours]_vars

NextQuantile == CallQuantile \/ Reset

SpecQuantile == Init /\ [][NextQuantile]_vars

NextCompressWeights == CallCompressWeights \/ Reset

SpecCompressWeights == Init /\ [][NextCompressWeights]_vars

NextCompression ==
    \/ CallSampleCompression1d
    \/ CallTriangularSampleCompression2d
    \/ Reset

SpecCompression == Init /\ [][NextCompression]_vars

Next ==
    \/ CallSampleCompression1d
    \/ CallTriangularSampleCompression2d
    \/ CallIsoProbabilityContours
    \/ CallIsoProbabilityContoursFromSamples
    \/ CallQuantile
    \/ CallMirror1d
    \/ CallMirror2d
    \/ CallCompressWeights
    \/ Reset

Spec == Init /\ [][Next]_vars

NextMirror == CallMirror1d \/ Reset

SpecMirror == Init /\ [][NextMirror]_vars

NextTriangular == CallTriangularSampleCompression2d \/ Reset

SpecTriangular == Init /\ [][NextTriangular]_vars

NextMirror2d == CallMirror2d \/ Reset

SpecMirror2d == Init /\ [][NextMirror2d]_vars

\* The weights a call used: the given ones, or ones for None.
UsedWeights == IF IsNone(args.w) THEN OnesLike(args.x) ELSE Get(args.w)

\* C1: sample_compression_1d conserves total weight: with w of x's length
\* (or omitted) and n >= 1, whichever subsample is drawn, the call returns and
\* the sum of the returned weights equals sum(w).
C1_MassConserved ==
    (/\ fn = "sample_compression_1d"
     /\ Len(UsedWeights) = Len(args.x)
     /\ args.n >= 1)
    => /\ ret.status = "ok"
       /\ SumSeq(ret.w) = SumSeq(UsedWeights)

\* A proper subsample was drawn and one representative took several points.
C1_Witness ==
    /\ fn = "sample_compression_1d"
    /\ ret.status = "ok"
    /\ ~IsNone(args.w)
    /\ Len(Get(args.w)) = Len(args.x)
    /\ args.n >= 1
    /\ Len(ret.x) < Len(args.x)
    /\ \E b \in 1..Len(ret.w) : ret.w[b] > 2
    /\ \E b \in 1..Len(ret.w) : ret.w[b] = 0

\* ------------------------------------------------- the contour solver
IsContourCall ==
    fn \in {"iso_probability_contours", "iso_probability_contours_from_samples"}

StrictlyIncreasing(c) == \A k \in 1..(Len(c) - 1) : RLt(c[k], c[k + 1])

NonDecreasing(s) == \A k \in 1..(Len(s) - 1) : s[k] <= s[k + 1]

\* C2 as stated: for all inputs the returned levels are a strictly
\* increasing sequence of length len(contours)+1.
C2_IncreasingForAllInputs ==
    (IsContourCall /\ ret.status = "ok")
    => /\ Len(ret.c) = Len(args.contours) + 1
       /\ StrictlyIncreasing(ret.c)

\* C2 as amended: when the requested masses are listed in non-decreasing
\* order, the returned levels are a strictly increasing sequence of length
\* len(contours)+1.
C2_IncreasingForAscendingContours ==
    (IsContourCall /\ ret.status = "ok" /\ NonDecreasing(args.contours))
    => /\ Len(ret.c) = Len(args.contours) + 1
       /\ StrictlyIncreasing(ret.c)

\* Three equal levels were repaired: the first now lies 2e-5 under the last.
C2_Witness ==
    /\ IsContourCall
    /\ ret.status = "ok"
    /\ NonDecreasing(args.contours)
    /\ Len(args.contours) = 2
    /\ RSub(ret.c[3], ret.c[1]) = Rat(2, EpsDen)
    /\ RSub(ret.c[3], ret.c[2]) = Eps

\* The mass each entry carries: its density (grid) or its weight (samples).
Masses ==
    IF fn = "iso_probability_contours" THEN args.x
    ELSE IF IsNone(args.w) THEN OnesLike(args.x) ELSE Get(args.w)

\* The mass of the entries whose density is at least the level.
MassAbove(level) ==
    SumSeq([k \in 1..Len(args.x) |->
                IF IntGeq(args.x[k], level) THEN Masses[k] ELSE 0])

\* C3: the level returned for the requested mass contours[k], which is
\* c[len(contours)-1-k] (reversed order, before the closing maximum), is a
\* threshold whose region {density >= level} holds at least the fraction
\* contours[k] of the total mass.
C3_LevelEnclosesMass ==
    (IsContourCall /\ ret.status = "ok" /\ Len(Masses) = Len(args.x))
    => \A k \in 1..Len(args.contours) :
          MassAbove(ret.c[Len(args.contours) + 1 - k]) * 100
              >= args.contours[k] * SumSeq(Masses)

\* Weighted samples of unequal weight, and a level that leaves mass outside.
C3_Witness ==
    /\ fn = "iso_probability_contours_from_samples"
    /\ ret.status = "ok"
    /\ ~IsNone(args.w)
    /\ Len(Masses) = Len(args.x)
    /\ \E a, b \in 1..Len(Masses) : Masses[a] > Masses[b] /\ Masses[b] > 0
    /\ args.contours = <<32, 68>>
    /\ MassAbove(ret.c[2]) < SumSeq(Masses)
    /\ MassAbove(ret.c[1]) = SumSeq(Masses)

IsUniformExample ==
    /\ fn = "iso_probability_contours"
    /\ args.x = UniformGrid
    /\ args.contours = DefaultContours

\* C4 as stated: on the uniform 10x10 grid of ones with contours
\* [0.68, 0.95] the levels are 3, strictly increasing, the last is 1/100 and
\* the two before it are 1/100 lowered by the repair.
C4_UniformEndsAtOneHundredth ==
    IsUniformExample
    => /\ ret.status = "ok"
       /\ Len(ret.c) = 3
       /\ StrictlyIncreasing(ret.c)
       /\ ret.c[3] = Rat(1, 100)
       /\ ret.c[2] = RSub(Rat(1, 100), Eps)
       /\ ret.c[1] = RSub(RSub(Rat(1, 100), Eps), Eps)

\* C4 as amended: on the uniform 10x10 grid of ones with contours
\* [0.68, 0.95] the levels are 3, strictly increasing, the last is 1 (the
\* largest density of the grid as given) and the two before it are
\* 1 - 1e-5 and 1 - 2e-5.
C4_UniformEndsAtMaximum ==
    IsUniformExample
    => /\ ret.status = "ok"
       /\ Len(ret.c) = 3
       /\ StrictlyIncreasing(ret.c)
       /\ ret.c[3] = Rat(1, 1)
       /\ ret.c[2] = Rat(EpsDen - 1, EpsDen)
       /\ ret.c[1] = Rat(EpsDen - 2, EpsDen)

C4_Witness == IsUniformExample /\ ret.status = "ok" /\ Len(ret.c) = 3

\* -------------------------------------------------------------- quantile
MinOf(a) == CHOOSE v \in {a[k] : k \in 1..Len(a)} : \A k \in 1..Len(a) : v <= a[k]

\* C5: for every non-empty sample array a with uniform weights (w omitted),
\* quantile(a, 0.0) is min(a) and quantile(a, 1.0) is max(a).
C5_QuantileBoundary ==
    (fn = "quantile" /\ Len(args.x) >= 1 /\ IsNone(args.w))
    => /\ args.q = 0 => (ret.status = "ok" /\ ret.val = Rat(MinOf(args.x), 1))
       /\ args.q = QSteps => (ret.status = "ok" /\ ret.val = Rat(MaxOf(args.x), 1))

\* ------------------------------------------------------------- mirror_1d
BoundsSet == (IF IsNone(args.xmin) THEN 0 ELSE 1) + (IF IsNone(args.xmax) THEN 0 ELSE 1)

\* C6 as stated: len(mirror_1d(d, xmin, xmax)) is len(d) with no bound,
\* 2*len(d) with exactly one bound, 3*len(d) with both bounds.
C6_MirrorLengthTriples ==
    fn = "mirror_1d"
    => Len(ret.val) = (BoundsSet + 1) * Len(args.x)

\* C6 as amended: len(mirror_1d(d, xmin, xmax)) is len(d) with no bound and
\* 2*len(d) with one bound or with both: with both, every point is reflected
\* into exactly one of the two halves, so each point appears exactly twice.
C6_MirrorLengthDoubles ==
    fn = "mirror_1d"
    => Len(ret.val) = (IF BoundsSet = 0 THEN 1 ELSE 2) * Len(args.x)

\* Both bounds set, points below, on and above the median.
C6_Witness ==
    /\ fn = "mirror_1d"
    /\ BoundsSet = 2
    /\ Get(args.xmin) < Get(args.xmax)
    /\ \E k \in 1..Len(args.x) : 2 * args.x[k] < Get(args.xmin) + Get(args.xmax)
    /\ \E k \in 1..Len(args.x) : 2 * args.x[k] = Get(args.xmin) + Get(args.xmax)
    /\ \E k \in 1..Len(args.x) : 2 * args.x[k] > Get(args.xmin) + Get(args.xmax)
    /\ Len(ret.val) = 6

\* ------------------------------------------------------ compress_weights
\* C7: with non-negative w of positive sum, nsamples > 0 and draws u in
\* [0, 1) (given, or drawn by the call), every output is the non-negative
\* integer floor(W_i) + 1 if u_i < frac(W_i) and floor(W_i) otherwise, for
\* W_i = w_i*nsamples/sum(w), and the outputs' total differs from nsamples by
\* less than len(w).
C7_StochasticRounding ==
    (/\ fn = "compress_weights"
     /\ ~IsNone(args.w)
     /\ ~IsNone(args.nsamples)
     /\ IF IsNone(args.w) \/ IsNone(args.nsamples) THEN FALSE
        ELSE /\ SumSeq(Get(args.w)) > 0
             /\ Get(args.nsamples) > 0
             /\ IsNone(args.u) \/ Len(Get(args.u)) = Len(Get(args.w)))
    => LET w == Get(args.w)
           ns == Get(args.nsamples)
           S == SumSeq(w)
           floor(k) == (w[k] * ns) \div S
           rest(k) == (w[k] * ns) % S
           up(k) == ret.u[k].n * S < rest(k) * ret.u[k].d
           total == SumSeq(ret.val)
       IN  /\ ret.status = "ok"
           /\ Len(ret.val) = Len(w)
           /\ \A k \in 1..Len(w) :
                 /\ ret.val[k] = floor(k) + (IF up(k) THEN 1 ELSE 0)
                 /\ ret.val[k] >= 0
           /\ total - ns < Len(w)
           /\ ns - total < Len(w)

\* Both roundings happen in one call, one of them on a draw of exactly 0.
C7_Witness ==
    /\ fn = "compress_weights"
    /\ ret.status = "ok"
    /\ ~IsNone(args.w)
    /\ ~IsNone(args.nsamples)
    /\ ~IsNone(args.u)
    /\ Len(ret.val) = 3
    /\ Len(Get(args.u)) = 3
    /\ Len(Get(args.w)) = 3
    /\ Get(args.nsamples) = 2
    /\ Get(args.w) = <<1, 2, 0>>
    /\ ret.val = <<1, 1, 0>>

\* ----------------------------------------------------- sample compression
\* C8: the compressed representation returned by sample_compression_1d and
\* by triangular_sample_compression_2d has at most n entries.
C8_AtMostNEntries ==
    (/\ fn \in {"sample_compression_1d", "triangular_sample_compression_2d"}
     /\ ret.status = "ok")
    => Len(ret.w) <= args.n

\* ---------------------------------------------------------------- weights
\* C9: a weights array whose length differs from the samples' makes the call
\* fail: quantile, iso_probability_contours_from_samples and
\* sample_compression_1d against their samples, compress_weights against u.
C9_MismatchedWeightsFail ==
    /\ (/\ fn \in {"quantile", "iso_probability_contours_from_samples",
                   "sample_compression_1d"}
        /\ ~IsNone(args.w)
        /\ Len(UsedWeights) # Len(args.x))
       => ret.status # "ok"
    /\ (/\ fn = "compress_weights"
        /\ ~IsNone(args.w)
        /\ ~IsNone(args.u)
        /\ IF IsNone(args.w) \/ IsNone(args.u) THEN FALSE
           ELSE Len(Get(args.w)) # Len(Get(args.u)))
       => ret.status # "ok"

\* C10: a call with the weights omitted succeeds as, and returns what, the
\* same call with an explicit array of ones of the samples' length does;
\* compress_weights called with neither w nor u succeeds.
C10_NoneIsUniformWeights ==
    /\ (fn = "quantile" /\ IsNone(args.w))
       => ret = quantile(args.x, args.q, QSteps, Some(OnesLike(args.x)))
    /\ (fn = "iso_probability_contours_from_samples" /\ IsNone(args.w))
       => ret = iso_probability_contours_from_samples(
                    args.x, args.contours, Some(OnesLike(args.x)))
    /\ (fn = "sample_compression_1d" /\ IsNone(args.w))
       => \E xs \in Subsamples(args.x, args.n) :
             ret = sample_compression_1d(args.x, Some(OnesLike(args.x)),
                                         args.n, xs)
    /\ (fn = "triangular_sample_compression_2d" /\ IsNone(args.w))
       => \E sel \in TriSelections(Len(args.x), OnesLike(args.x), args.n),
             degenerate \in BOOLEAN :
             ret = triangular_sample_compression_2d(
                       Len(args.x), Some(OnesLike(args.x)), args.n, sel,
                       args.j, degenerate)
    /\ (fn = "compress_weights" /\ IsNone(args.w))
       => IF IsNone(args.u) THEN ret.status = "ok"
          ELSE ret = compress_weights(Some(OnesLike(Get(args.u))), args.u,
                                      args.nsamples, <<>>)

\* ------------------------------------------------------------- mirror_2d
\* The images of one coordinate v under the bounds lo, hi of its axis: v, and
\* with a bound its reflection (with both bounds, about lo below the median
\* and about hi otherwise).
Images(v, lo, hi) ==
    IF IsNone(lo) /\ IsNone(hi) THEN <<v>>
    ELSE IF IsNone(hi) THEN <<v, 2 * Get(lo) - v>>
    ELSE IF IsNone(lo) THEN <<v, 2 * Get(hi) - v>>
    ELSE IF 2 * v < Get(lo) + Get(hi) THEN <<v, 2 * Get(lo) - v>>
    ELSE <<v, 2 * Get(hi) - v>>

\* How often the pair p is returned, and how often it is due: once for every
\* input pair, image of its x and image of its y that make it.
Returned(p) == Cardinality({m \in 1..Len(ret.x) : <<ret.x[m], ret.y[m]>> = p})

Due(p) ==
    Cardinality({kab \in (1..Len(args.x)) \X (1..2) \X (1..2) :
        LET xs == Images(args.x[kab[1]], args.xmin, args.xmax)
            ys == Images(args.y[kab[1]], args.ymin, args.ymax)
        IN  /\ kab[2] <= Len(xs)
            /\ kab[3] <= Len(ys)
            /\ <<xs[kab[2]], ys[kab[3]]>> = p})

AxisFactor(lo, hi) == IF IsNone(lo) /\ IsNone(hi) THEN 1 ELSE 2

\* C11: mirror_2d keeps x and y paired through both reflections: for arrays
\* of equal length and any combination of the four bounds the call returns x
\* and y of the same length len*fx*fy, every returned pair is an input pair
\* with x replaced by one of its images and y by one of its, the returned
\* pairs are those of the y-reflection of the x-augmented set (each input
\* pair once per image of x and image of y), and the caller's arrays are
\* unmodified.
C11_PairsKeptThroughBothReflections ==
    (fn = "mirror_2d" /\ Len(args.x) = Len(args.y))
    => /\ ret.status = "ok"
       /\ Len(ret.x) = Len(ret.y)
       /\ Len(ret.x) = Len(args.x) * AxisFactor(args.xmin, args.xmax)
                           * AxisFactor(args.ymin, args.ymax)
       /\ \A m \in 1..Len(ret.x) :
             /\ \E k \in 1..Len(args.x) :
                   LET xs == Images(args.x[k], args.xmin, args.xmax)
                       ys == Images(args.y[k], args.ymin, args.ymax)
                   IN  /\ \E a \in 1..Len(xs) : ret.x[m] = xs[a]
                       /\ \E b \in 1..Len(ys) : ret.y[m] = ys[b]
             /\ Returned(<<ret.x[m], ret.y[m]>>) = Due(<<ret.x[m], ret.y[m]>>)
       /\ ret.d_x_ = args.x
       /\ ret.d_y_ = args.y

\* All four bounds set, one point in the low half and one in the high half
\* of each axis, and a pair reflected in both axes is returned.
C11_Witness ==
    /\ fn = "mirror_2d"
    /\ ret.status = "ok"
    /\ args.x = <<0, 2>>
    /\ args.y = <<2, 1>>
    /\ args.xmin = Some(0)
    /\ args.xmax = Some(2)
    /\ args.ymin = Some(0)
    /\ args.ymax = Some(2)
    /\ Len(ret.x) = 8
    /\ \E m \in 1..Len(ret.x) : ret.x[m] = 2 * 2 - 2 /\ ret.y[m] = 2 * 2 - 1
    /\ \E m \in 1..Len(ret.x) : ret.x[m] = 2 * 0 - 0 /\ ret.y[m] = 2 * 2 - 2

\* ------------------------------------- triangular_sample_compression_2d
\* sum of a sequence of reals.
RECURSIVE RSumTo(_, _)
RSumTo(s, k) == IF k = 0 THEN Rat(0, 1) ELSE RAdd(RSumTo(s, k - 1), s[k])

\* The points located in a triangle, and those of them whose triangle has
\* the vertex at the 0-based position v.
InHull == {p \in 1..Len(args.x) : args.j[p] # <<>>}

PointsAround(v) == {p \in InHull : \E c \in 1..3 : args.j[p][c] = v}

\* sum of the weights of a set of points.
RECURSIVE WeightOf(_)
WeightOf(S) ==
    IF S = {} THEN 0
    ELSE LET p == CHOOSE q \in S : TRUE IN UsedWeights[p] + WeightOf(S \ {p})

\* C12: triangular_sample_compression_2d splats mass onto triangle vertices:
\* given the triangle located for each point, a vertex holds one third of the
\* weight of every in-hull point whose triangle it belongs to, points outside
\* the hull (triangle -1) add nothing, the returned weights sum to the weight
\* of the in-hull points, and there is one entry per chosen vertex.
C12_ThirdsSplatOntoVertices ==
    (fn = "triangular_sample_compression_2d" /\ ret.status = "ok")
    => /\ Len(ret.w) = Cardinality(ret.i)
       /\ \A v \in 1..Len(ret.w) : ret.w[v] = Rat(WeightOf(PointsAround(v - 1)), 3)
       /\ RSumTo(ret.w, Len(ret.w)) = Rat(WeightOf(InHull), 1)

\* Four vertices, three weighted points in two triangles sharing an edge
\* and a weighted point outside the hull.
C12_Witness ==
    /\ fn = "triangular_sample_compression_2d"
    /\ ret.status = "ok"
    /\ Len(args.x) = 4
    /\ UsedWeights = <<1, 2, 2, 1>>
    /\ args.j = <<<<0, 1, 2>>, <<1, 2, 3>>, <<>>, <<0, 1, 2>>>>
    /\ InHull = {1, 2, 4}
    /\ ret.w = <<Rat(2, 3), Rat(4, 3), Rat(4, 3), Rat(2, 3)>>

====
